---- MODULE Spec2Model ----
(***************************************************************************)
(* Model of the diagnostic scripts under scripts/: the snapshot-query      *)
(* scripts (check-acs.py, query-acs.py, check-canton-contracts.py,         *)
(* check-bridge-contracts.py, test-canton-api.py), the command-submission  *)
(* script bootstrap-http.py and the coverage table coverage_report.py.     *)
(*                                                                         *)
(* One run of one script is one behaviour: Init picks the script, every    *)
(* outbound HTTP call (urlopen, which blocks until the response is read)   *)
(* together with the code that runs up to the next call is one action, and *)
(* the responses are drawn from bounded sets.  An uncaught Python          *)
(* exception ends the run in pc = "crashed" with what was printed so far.  *)
(***************************************************************************)
EXTENDS Integers, Sequences, FiniteSets, TLC

VARIABLES
    script,     \* which script this run executes
    pc,         \* position of the run
    call,       \* query-acs.py: which query_acs call is running (1 or 2)
    requests,   \* log of the HTTP requests sent so far, with their outcome
    offset,     \* the script's variable `offset`
    printed,    \* the lines printed so far
    templates,  \* the per-template tally dict of the running script
    returned,   \* query-acs.py: the lists returned by the query_acs calls
    found,      \* test-canton-api.py: mUSD_tokens, bridge, staking, ...
    now,        \* bootstrap-http.py: int(time.time()) at the last cmd_id call
    issued,     \* bootstrap-http.py: the ids cmd_id returned, and from what
    coverage,   \* coverage_report.py: `data`, as sorted(data.items())
    results     \* coverage_report.py: the list `results`

vars == <<script, pc, call, requests, offset, printed, templates, returned,
          found, now, issued, coverage, results>>

(***************************************************************************)
(* Bounds of the model.                                                    *)
(***************************************************************************)
MaxEntries == 2   \* longest response list / number of response lines
MaxClock   == 2   \* latest value of int(time.time()), counted from the run's start
MaxStmts   == 2   \* most statements (functions) of a file in coverage.json

(***************************************************************************)
(* JSON values.  Every value is a record of the same shape so that values  *)
(* of different JSON types can be compared.  A JSON object keeps its keys  *)
(* in insertion order (items: a sequence of <<key, value>> pairs with      *)
(* distinct keys), as a Python dict does.  A JSON string is kept as the    *)
(* sequence of its tokens, so that split(":") and the substring test `in`  *)
(* can be computed; tokens never overlap.  Invalid stands for a text that  *)
(* json.loads rejects.                                                     *)
(***************************************************************************)
JVal(ty, s, n, items, elems) ==
    [ty |-> ty, s |-> s, n |-> n, items |-> items, elems |-> elems]
JNull       == JVal("null", <<>>, 0, <<>>, <<>>)
Invalid     == JVal("invalid", <<>>, 0, <<>>, <<>>)
JBool(b)    == JVal("bool", <<>>, IF b THEN 1 ELSE 0, <<>>, <<>>)
JNum(n)     == JVal("num", <<>>, n, <<>>, <<>>)
JStr(toks)  == JVal("str", toks, 0, <<>>, <<>>)
JDict(its)  == JVal("dict", <<>>, 0, its, <<>>)
JList(els)  == JVal("list", <<>>, 0, <<>>, els)

IsDict(v) == v.ty = "dict"
IsList(v) == v.ty = "list"
IsStr(v)  == v.ty = "str"

\* `k in d` for a dict d
Has(d, k) == \E i \in 1..Len(d.items) : d.items[i][1] = k
\* d[k] for a dict d that has k
Get(d, k) == d.items[CHOOSE i \in 1..Len(d.items) : d.items[i][1] = k][2]
\* d.get(k, default)
GetOr(d, k, default) == IF Has(d, k) THEN Get(d, k) ELSE default
\* list(d.keys())
Keys(d) == [i \in 1..Len(d.items) |-> d.items[i][1]]
\* Python truthiness of a value
Truthy(v) ==
    CASE v.ty = "null" -> FALSE
      [] v.ty = "bool" -> v.n = 1
      [] v.ty = "num"  -> v.n # 0
      [] v.ty = "str"  -> v.s # <<>>
      [] v.ty = "dict" -> v.items # <<>>
      [] v.ty = "list" -> v.elems # <<>>
      [] OTHER         -> TRUE

\* needle in text, both token sequences
Contains(text, needle) ==
    \E i \in 0..(Len(text) - Len(needle)) :
        \A j \in 1..Len(needle) : text[i + j] = needle[j]

\* tid.split(":"): the positions of the ":" tokens
ColonPos(text) == {i \in 1..Len(text) : text[i] = ":"}
\* ":".join(parts[-2:]) if len(parts) >= 3 else tid, for parts = tid.split(":")
ShortName(text) ==
    IF Cardinality(ColonPos(text)) >= 2
    THEN LET p == CHOOSE i \in ColonPos(text) :
                     Cardinality({j \in ColonPos(text) : j > i}) = 1
         IN  SubSeq(text, p + 1, Len(text))
    ELSE text

\* A Python dict used as a tally: d[k] = d.get(k, 0) + 1
Bump(d, k) == IF k \in DOMAIN d THEN [d EXCEPT ![k] = @ + 1] ELSE d @@ (k :> 1)
EmptyDict == <<>>

RECURSIVE SetToSeq(_)
SetToSeq(S) ==
    IF S = {} THEN <<>>
    ELSE LET x == CHOOSE y \in S : TRUE IN <<x>> \o SetToSeq(S \ {x})

SeqsUpTo(S, n) == UNION {[1..k -> S] : k \in 0..n}

(***************************************************************************)
(* HTTP.  A response body is kept through the two views the scripts take   *)
(* of its text: doc is json.loads of the whole text, lines are json.loads  *)
(* of each line of text.strip().split("\n") (Invalid where that raises).   *)
(* An outcome of urlopen is the body, an HTTP error status (urlopen raises *)
(* HTTPError) or a connection failure (urlopen raises URLError).           *)
(***************************************************************************)
Body(doc, lines) == [doc |-> doc, lines |-> lines]
\* a compact JSON document on one line
DocBody(v)       == Body(v, <<v>>)
\* one JSON record per line
NdjsonBody(es)   == Body(IF Len(es) = 1 THEN es[1] ELSE Invalid, es)
\* an indented JSON array: no line of it is a JSON text of its own
PrettyBody(es)   == Body(JList(es), [i \in 1..(Len(es) + 2) |-> Invalid])

Outcome(status, body) == [status |-> status, body |-> body]
Refused       == Outcome("refused", Body(Invalid, <<>>))
HttpError(b)  == Outcome("http_error", b)
Ok(b)         == Outcome("ok", b)

\* a request sent: the endpoint, the query_acs call it belongs to, the party
\* it names and activeAtOffset (active-contracts), commandId and the entity of
\* each createCommand (submit-and-wait), and how urlopen ended
Request(kind, n, party, activeAtOffset, commandId, entities, outcome) ==
    [kind |-> kind, call |-> n, party |-> party, activeAtOffset |-> activeAtOffset,
     commandId |-> commandId, entities |-> entities, outcome |-> outcome]

\* a printed line: what it is, the value and the number it shows
Line(tag, v, n) == [tag |-> tag, v |-> v, n |-> n]

(***************************************************************************)
(* The responses the ledger node is taken to give.                         *)
(***************************************************************************)
Tok(s) == JStr(<<s>>)
BridgeTid == <<"pkg", ":", "Minted", ".Protocol.", "V3", ":", "BridgeService">>
TokenTid  == <<"pkg", ":", "Mod", ":", "Token">>

Event(tid, cid, args) ==
    JDict(<< <<"templateId", JStr(tid)>>, <<"contractId", Tok(cid)>>,
             <<"createArgument", JDict(args)>> >>)
EvBridge == Event(BridgeTid, "c1",
                  << <<"operator", Tok("op")>>, <<"paused", JBool(FALSE)>> >>)
EvToken  == Event(TokenTid, "c2", << <<"amount", Tok("5.0")>> >>)
EvMUSD   == Event(<<"pkg", ":", "Canton", "Direct", "Mint", ":", "Canton", "MUSD">>, "c3",
                  << <<"owner", Tok("alice")>>, <<"amount", Tok("5.0")>> >>)
\* a created event that carries no templateId
EvNoTid  == JDict(<< <<"contractId", Tok("c4")>> >>)

\* the three envelope shapes, with optional other keys around the carrier
Entry(ceItems)      == JDict(<< <<"contractEntry", JDict(ceItems)>> >>)
Carrier(shape, ev)  ==
    CASE shape = "flat"  -> <<"createdEvent", ev>>
      [] shape = "js"    -> <<"JsActiveContract", JDict(<< <<"createdEvent", ev>> >>)>>
      [] shape = "party" -> <<"alice::1220", JDict(<< <<"createdEvent", ev>> >>)>>
Shapes == {"flat", "js", "party"}
Plain(shape, ev)  == Entry(<< Carrier(shape, ev) >>)
Around(shape, ev) ==
    Entry(<< <<"synchronizerId", Tok("sync")>>,
             <<"traceContext", JDict(<< <<"traceparent", Tok("00")>> >>)>>,
             Carrier(shape, ev),
             <<"reassignmentCounter", JNum(0)>> >>)

\* entries in which one createdEvent sits in one of the three shapes
WellFormed ==
    {Plain(sh, ev) : sh \in Shapes, ev \in {EvBridge, EvToken, EvNoTid}}
    \cup {Around(sh, EvBridge) : sh \in Shapes}
\* entries of other shapes
EmptyEntry   == Entry(<< <<"JsEmpty", JDict(<<>>)>> >>)
NullEntry    == JDict(<< <<"contractEntry", JNull>> >>)
NoEntry      == JDict(<< <<"workflowId", Tok("w")>> >>)

ErrorDoc  == JDict(<< <<"code", Tok("NOT_FOUND")>>, <<"cause", Tok("x")>> >>)

LedgerEndOutcomes ==
    {Refused, HttpError(DocBody(ErrorDoc)), Ok(DocBody(Invalid)),
     Ok(DocBody(JDict(<< <<"offset", JNum(42)>> >>))),
     Ok(DocBody(JDict(<< <<"offset", JNum(7)>> >>))),
     Ok(DocBody(ErrorDoc)), Ok(DocBody(JList(<<>>)))}

\* what is not a list of entries
NonListOutcomes ==
    {Refused, HttpError(DocBody(ErrorDoc)), Ok(DocBody(Invalid)),
     Ok(DocBody(ErrorDoc)), Ok(DocBody(Tok("oops"))),
     Ok(DocBody(JDict(<< <<"result", JList(<< Plain("js", EvBridge) >>)>> >>)))}
ListOutcomes(entries) ==
    {Ok(DocBody(JList(es))) : es \in SeqsUpTo(entries, MaxEntries)}


(***************************************************************************)
(* The run.                                                                *)
(***************************************************************************)
SnapshotScripts == {"check-acs", "query-acs", "check-canton-contracts",
                    "check-bridge-contracts", "test-canton-api"}

PARTY    == "minted-validator-1"
OPERATOR == "minted-operator"

NoFound == [mUSD_tokens |-> <<>>, bridge |-> JNull, staking |-> JNull,
            ethpool |-> JNull, boostpool |-> JNull, lending |-> JNull,
            directmint |-> <<>>]

Init ==
    /\ script \in SnapshotScripts \cup {"bootstrap-http", "coverage_report"}
    /\ pc = CASE script \in SnapshotScripts -> "ledger_end"
              [] script = "bootstrap-http" -> "bridge_service"
              [] script = "coverage_report" -> "load"
    /\ call = 1
    /\ requests = <<>>
    /\ offset = JNull
    /\ printed = <<>>
    /\ templates = EmptyDict
    /\ returned = <<>>
    /\ found = NoFound
    /\ now = 0
    /\ issued = <<>>
    /\ coverage = <<>>
    /\ results = <<>>

\* json.loads(r.read()) of a response: the document, Invalid when urlopen or
\* json.loads raises
Loads(o) == IF o.status = "ok" THEN o.body.doc ELSE Invalid

\* json.loads(r.read())["offset"] raises unless the document is an object
\* that has the key
HasOffset(o) == IsDict(Loads(o)) /\ Has(Loads(o), "offset")

\* The ledger-end call of a script that reads ["offset"], and the print of it.
LedgerEndStrict(name, tag) ==
    /\ script = name
    /\ pc = "ledger_end"
    /\ \E o \in LedgerEndOutcomes :
        /\ requests' = Append(requests,
                              Request("ledger-end", call, "", JNull, "", <<>>, o))
        /\ IF HasOffset(o)
           THEN /\ offset' = Get(Loads(o), "offset")
                /\ printed' = Append(printed, Line(tag, Get(Loads(o), "offset"), 0))
                /\ pc' = "active_contracts"
           ELSE /\ pc' = "crashed"
                /\ UNCHANGED <<offset, printed>>
    /\ UNCHANGED <<script, call, templates, returned, found, now, issued, coverage, results>>

(***************************************************************************)
(* check-acs.py                                                            *)
(***************************************************************************)
\* "contractEntry" in e
AcsIn(e) ==
    CASE IsDict(e) -> IF Has(e, "contractEntry") THEN "yes" ELSE "no"
      [] IsList(e) -> IF \E i \in 1..Len(e.elems) : e.elems[i] = Tok("contractEntry")
                      THEN "yes" ELSE "no"
      [] IsStr(e)  -> IF Contains(e.s, <<"contractEntry">>) THEN "yes" ELSE "no"
      [] OTHER     -> "raise"

\* contracts = [e for e in data if "contractEntry" in e]
AcsContracts(data) == SelectSeq(data.elems, LAMBDA e : AcsIn(e) = "yes")

\* str(list(ce.keys()))
RECURSIVE KeysRepr(_, _)
KeysRepr(keys, i) ==
    IF i > Len(keys) THEN <<>>
    ELSE (IF i > 1 THEN <<", ">> ELSE <<>>) \o <<"'", keys[i], "'">>
         \o KeysRepr(keys, i + 1)
KeysLabel(ce) == JStr(<<"[">> \o KeysRepr(Keys(ce), 1) \o <<"]">>)

Extracted(crash, counted, label) ==
    [crash |-> crash, counted |-> counted, label |-> label]
\* a dict or list is not hashable and cannot be a key of templates
Hashable(v) == v.ty \notin {"dict", "list"}

\* AcsScan without the `elif key == "createdEvent"` branch
RECURSIVE AcsScanNoFlat(_, _)
AcsScanNoFlat(ce, i) ==
    IF i > Len(ce.items) THEN Extracted(FALSE, TRUE, KeysLabel(ce))
    ELSE LET val == ce.items[i][2]
         IN  IF IsDict(val) /\ Has(val, "createdEvent")
             THEN LET ev == Get(val, "createdEvent")
                      tid == GetOr(ev, "templateId", Tok("unknown"))
                  IN  IF IsDict(ev) /\ Hashable(tid)
                      THEN Extracted(FALSE, TRUE, tid)
                      ELSE Extracted(TRUE, FALSE, JNull)
             ELSE AcsScanNoFlat(ce, i + 1)

\* the for/else over ce.items(), from item i on
RECURSIVE AcsScan(_, _)
AcsScan(ce, i) ==
    IF i > Len(ce.items) THEN Extracted(FALSE, TRUE, KeysLabel(ce))
    ELSE LET key == ce.items[i][1]
             val == ce.items[i][2]
         IN  IF IsDict(val) /\ Has(val, "createdEvent")
             THEN LET ev == Get(val, "createdEvent")
                      tid == GetOr(ev, "templateId", Tok("unknown"))
                  IN  IF IsDict(ev) /\ Hashable(tid)
                      THEN Extracted(FALSE, TRUE, tid)
                      ELSE Extracted(TRUE, FALSE, JNull)
             ELSE IF key = "createdEvent"
             THEN LET tid == GetOr(val, "templateId", Tok("unknown"))
                  IN  IF IsDict(val) /\ Hashable(tid)
                      THEN Extracted(FALSE, TRUE, tid)
                      ELSE Extracted(TRUE, FALSE, JNull)
             ELSE AcsScan(ce, i + 1)

\* the body of `for c in contracts` for one c
AcsExtract(c) ==
    IF ~IsDict(c) THEN Extracted(TRUE, FALSE, JNull)
    ELSE LET ce == Get(c, "contractEntry")
         IN  IF IsDict(ce) THEN AcsScan(ce, 1)
             ELSE Extracted(FALSE, FALSE, JNull)

Tally(crash, t) == [crash |-> crash, templates |-> t]
RECURSIVE AcsTally(_, _, _)
AcsTally(contracts, i, t) ==
    IF i > Len(contracts) THEN Tally(FALSE, t)
    ELSE LET r == AcsExtract(contracts[i])
         IN  IF r.crash THEN Tally(TRUE, t)
             ELSE AcsTally(contracts, i + 1,
                           IF r.counted THEN Bump(t, r.label) ELSE t)

\* sorted(templates.items()) raises when two keys are of types that do not
\* order (str against None or a number)
SortClass(v) == IF v.ty \in {"num", "bool"} THEN "num" ELSE v.ty
SortRaises(t) ==
    \E a, b \in DOMAIN t : a # b /\ (SortClass(a) # SortClass(b) \/ a.ty = "null")

\* the lines `  [{count}x] {t}`; their order among themselves is not kept
CountLines(tag, t) ==
    LET keys == SetToSeq(DOMAIN t)
    IN  [i \in 1..Len(keys) |-> Line(tag, keys[i], t[keys[i]])]

Ran(crash, lines, t) == [crash |-> crash, lines |-> lines, templates |-> t]

\* the script from `data = json.loads(r.read())` to its end
AcsMain(o) ==
    LET data == Loads(o) IN
    IF data = Invalid THEN Ran(TRUE, <<>>, EmptyDict)
    ELSE IF IsList(data)
    THEN IF \E i \in 1..Len(data.elems) : AcsIn(data.elems[i]) = "raise"
         THEN Ran(TRUE, <<>>, EmptyDict)
         ELSE LET contracts == AcsContracts(data)
                  total == <<Line("Total active contracts", JNull, Len(contracts))>>
                  r == AcsTally(contracts, 1, EmptyDict)
              IN  IF r.crash \/ SortRaises(r.templates)
                  THEN Ran(TRUE, total, r.templates)
                  ELSE Ran(FALSE, total \o CountLines("count", r.templates),
                           r.templates)
    ELSE IF IsDict(data)
    THEN IF Has(data, "code")
         THEN Ran(FALSE, <<Line("Error", Get(data, "code"), 0)>>, EmptyDict)
         ELSE Ran(FALSE, <<Line("json", data, 0)>>, EmptyDict)
    ELSE Ran(FALSE, <<Line("Unexpected response type", JNull, 0),
                      Line("str", data, 0)>>, EmptyDict)

AcsEntries ==
    WellFormed
    \cup {EmptyEntry, NullEntry, Entry(<< <<"createdEvent", JNull>> >>), NoEntry, JNull}

AcsLedgerEnd == LedgerEndStrict("check-acs", "Ledger offset")

AcsActiveContracts ==
    /\ script = "check-acs"
    /\ pc = "active_contracts"
    /\ \E o \in NonListOutcomes \cup ListOutcomes(AcsEntries) :
        LET r == AcsMain(o) IN
        /\ requests' = Append(requests,
                              Request("active-contracts", call, PARTY, offset, "", <<>>, o))
        /\ printed' = printed \o r.lines
        /\ templates' = r.templates
        /\ pc' = IF r.crash THEN "crashed" ELSE "done"
    /\ UNCHANGED <<script, call, offset, returned, found, now, issued, coverage, results>>

(***************************************************************************)
(* check-canton-contracts.py                                               *)
(***************************************************************************)
ShowFirst == 5
ShowFirstIns == 5

\* by_template[short].append(evt)
Push(d, k, x) == IF k \in DOMAIN d THEN [d EXCEPT ![k] = Append(@, x)]
                 ELSE d @@ (k :> <<x>>)

Grouped(crash, skip, short, evt) ==
    [crash |-> crash, skip |-> skip, short |-> short, evt |-> evt]
\* one pass of `for entry in contracts`: entry.get and .get raise on what is
\* no dict, ac["createdEvent"] and evt["templateId"] on a missing key,
\* tid.split on what is no str
CcGroup(entry) ==
    IF ~IsDict(entry) \/ ~IsDict(GetOr(entry, "contractEntry", JDict(<<>>)))
    THEN Grouped(TRUE, FALSE, <<>>, JNull)
    ELSE LET ac == GetOr(GetOr(entry, "contractEntry", JDict(<<>>)),
                         "JsActiveContract", JNull)
         IN  IF ~Truthy(ac) THEN Grouped(FALSE, TRUE, <<>>, JNull)
             ELSE IF ~IsDict(ac) \/ ~Has(ac, "createdEvent")
                     \/ ~IsDict(Get(ac, "createdEvent"))
                     \/ ~Has(Get(ac, "createdEvent"), "templateId")
                     \/ ~IsStr(Get(Get(ac, "createdEvent"), "templateId"))
             THEN Grouped(TRUE, FALSE, <<>>, JNull)
             ELSE Grouped(FALSE, FALSE,
                          ShortName(Get(Get(ac, "createdEvent"), "templateId").s),
                          Get(ac, "createdEvent"))

RECURSIVE CcByTemplate(_, _, _)
CcByTemplate(contracts, i, by) ==
    IF i > Len(contracts) THEN Tally(FALSE, by)
    ELSE LET g == CcGroup(contracts[i])
         IN  IF g.crash THEN Tally(TRUE, by)
             ELSE CcByTemplate(contracts, i + 1,
                               IF g.skip THEN by ELSE Push(by, g.short, g.evt))

SummaryKeys == <<"nonce", "amount", "user", "operator", "owner", "status",
                 "ethAddress", "cantonRecipient", "ethTxHash">>
\* the line printed for one event of a template; raises on a missing
\* contractId and on a createArgument that is no dict
CcCanShow(evt) ==
    /\ Has(evt, "contractId") /\ IsStr(Get(evt, "contractId"))
    /\ IsDict(GetOr(evt, "createArgument", JDict(<<>>)))
CcShow(evt) ==
    LET payload == GetOr(evt, "createArgument", JDict(<<>>))
        shown == Cardinality({i \in 1..Len(SummaryKeys) : Has(payload, SummaryKeys[i])})
    IN  Line(IF shown > 0 THEN "contract fields" ELSE "contract keys",
             Get(evt, "contractId"), shown)

Min(a, b) == IF a < b THEN a ELSE b
\* the lines of one template: its header, events[:5], and how many more
CcSection(tpl, events) ==
    LET n == Min(Len(events), ShowFirst)
        bad == {i \in 1..n : ~CcCanShow(events[i])}
        upto == IF bad = {} THEN n
                ELSE (CHOOSE i \in bad : \A j \in bad : i <= j) - 1
    IN  [crash |-> bad # {},
         lines |-> <<Line("section", JStr(tpl), Len(events))>>
                   \o [i \in 1..upto |-> CcShow(events[i])]
                   \o (IF bad = {} /\ Len(events) > ShowFirst
                       THEN <<Line("more", JStr(tpl), Len(events) - ShowFirst)>>
                       ELSE <<>>)]

\* `for tpl, events in sorted(by_template.items())`; the order of the
\* templates among themselves is not kept
RECURSIVE CcSections(_, _)
CcSections(by, keys) ==
    IF keys = <<>> THEN [crash |-> FALSE, lines |-> <<>>]
    ELSE LET s == CcSection(Head(keys), by[Head(keys)])
         IN  IF s.crash THEN s
             ELSE LET rest == CcSections(by, Tail(keys))
                  IN  [crash |-> rest.crash, lines |-> s.lines \o rest.lines]

\* a run that printed `before` and then did `rest`
Then(before, rest) == Ran(rest.crash, before \o rest.lines, rest.templates)

\* the prints that follow the grouping loop
CcReport(by) ==
    LET s == CcSections(by, SetToSeq(DOMAIN by))
    IN  Ran(s.crash,
            <<Line("Templates found", JNull, Cardinality(DOMAIN by))>> \o s.lines, by)

\* the list branch of main
CcAfterLoop(n, r) ==
    IF r.crash THEN Ran(TRUE, <<Line("Total active contracts", JNull, n)>>, r.templates)
    ELSE Then(<<Line("Total active contracts", JNull, n)>>, CcReport(r.templates))
CcList(contracts) ==
    CcAfterLoop(Len(contracts), CcByTemplate(contracts, 1, EmptyDict))

\* main from `contracts = query_contracts(offset)` to its end
CcMain(o) ==
    IF Loads(o) = Invalid THEN Ran(TRUE, <<>>, EmptyDict)
    ELSE IF IsList(Loads(o)) THEN CcList(Loads(o).elems)
    ELSE Ran(FALSE, <<Line("Unexpected response", Loads(o), 0)>>, EmptyDict)

CcEntries  == {Plain("js", EvBridge), Plain("js", EvToken), Plain("js", EvNoTid),
               Around("js", EvBridge), Plain("flat", EvToken),
               Plain("party", EvBridge), EmptyEntry, NullEntry, NoEntry}

CcGetOffset == LedgerEndStrict("check-canton-contracts", "Ledger offset")

CcQueryContracts ==
    /\ script = "check-canton-contracts"
    /\ pc = "active_contracts"
    /\ \E o \in NonListOutcomes \cup ListOutcomes(CcEntries) :
        LET r == CcMain(o) IN
        /\ requests' = Append(requests,
                              Request("active-contracts", call, PARTY, offset, "", <<>>, o))
        /\ printed' = printed \o r.lines
        /\ templates' = r.templates
        /\ pc' = IF r.crash THEN "crashed" ELSE "done"
    /\ UNCHANGED <<script, call, offset, returned, found, now, issued, coverage, results>>

(***************************************************************************)
(* check-bridge-contracts.py                                               *)
(***************************************************************************)
\* str(tid)
StrOf(v) == IF IsStr(v) THEN v.s ELSE <<"repr">>

\* the distinct elements of a sequence in the order they first occur, which
\* is the order of Counter(seq).items()
RECURSIVE Uniq(_)
Uniq(seq) ==
    IF seq = <<>> THEN <<>>
    ELSE LET init == SubSeq(seq, 1, Len(seq) - 1)
             last == seq[Len(seq)]
         IN  IF \E i \in 1..Len(init) : init[i] = last THEN Uniq(init)
             ELSE Append(Uniq(init), last)
Count(seq, x) == Cardinality({i \in 1..Len(seq) : seq[i] = x})

\* an offset of 0 whatever the ledger end is
BridgeOffsetZero(end_data) == JNum(0)

\* offset = end_data.get("offset", 0)
BridgeOffset(end_data) == GetOr(end_data, "offset", JNum(0))

BridgeLedgerEnd ==
    /\ script = "check-bridge-contracts"
    /\ pc = "ledger_end"
    /\ \E o \in LedgerEndOutcomes :
        /\ requests' = Append(requests,
                              Request("ledger-end", call, "", JNull, "", <<>>, o))
        /\ IF IsDict(Loads(o))
           THEN /\ offset' = BridgeOffset(Loads(o))
                /\ printed' = Append(printed,
                                     Line("Ledger end offset", BridgeOffset(Loads(o)), 0))
                /\ pc' = "active_contracts"
           ELSE /\ pc' = "crashed"
                /\ UNCHANGED <<offset, printed>>
    /\ UNCHANGED <<script, call, templates, returned, found, now, issued, coverage, results>>

\* the entries selection: data.get("result", []) of a dict, a list itself,
\* [] for anything else
BridgeEntries(data) ==
    IF IsDict(data) THEN GetOr(data, "result", JList(<<>>))
    ELSE IF IsList(data) THEN data
    ELSE JList(<<>>)

Triple(tid, args, cid) == [tid |-> tid, args |-> args, cid |-> cid]
Sorted(crash, skip, kind, triple) ==
    [crash |-> crash, skip |-> skip, kind |-> kind, triple |-> triple]
NoTriple == Triple(JNull, JNull, JNull)
\* (tid, args, cid) of a createdEvent
TripleOf(ce) ==
    Triple(GetOr(ce, "templateId", Tok("?")),
           GetOr(ce, "createArgument", JDict(<<>>)),
           GetOr(ce, "contractId", Tok("?")))
\* which list a tid goes to besides all_templates
KindOf(tid) ==
    IF Contains(StrOf(tid), <<"BridgeInRequest">>) THEN "bridge_in"
    ELSE IF \/ Contains(StrOf(tid), <<"MUSD">>)
            \/ Contains(StrOf(tid), <<"Minted", "MUSD">>)
            \/ Contains(StrOf(tid), <<"Canton", "MUSD">>)
    THEN "musd"
    ELSE "other"
\* ce_wrapper.get("JsActiveContract", {}) of an entry
JsActiveContract(entry) ==
    GetOr(GetOr(entry, "contractEntry", JDict(<<>>)), "JsActiveContract", JDict(<<>>))
\* one pass of `for entry in entries`
BridgeSort(entry) ==
    IF ~IsDict(entry) \/ ~IsDict(GetOr(entry, "contractEntry", JDict(<<>>)))
    THEN Sorted(TRUE, FALSE, "", NoTriple)
    ELSE IF ~Truthy(JsActiveContract(entry)) THEN Sorted(FALSE, TRUE, "", NoTriple)
    ELSE IF \/ ~IsDict(JsActiveContract(entry))
            \/ ~IsDict(GetOr(JsActiveContract(entry), "createdEvent", JDict(<<>>)))
    THEN Sorted(TRUE, FALSE, "", NoTriple)
    ELSE Sorted(FALSE, FALSE,
                KindOf(GetOr(GetOr(JsActiveContract(entry), "createdEvent",
                                   JDict(<<>>)), "templateId", Tok("?"))),
                TripleOf(GetOr(JsActiveContract(entry), "createdEvent", JDict(<<>>))))

Lists(crash, all, ins, musd) ==
    [crash |-> crash, all_templates |-> all, bridge_ins |-> ins, musd_tokens |-> musd]
RECURSIVE BridgeLoop(_, _, _)
BridgeLoop(entries, i, acc) ==
    IF i > Len(entries) THEN acc
    ELSE LET r == BridgeSort(entries[i])
         IN  IF r.crash THEN [acc EXCEPT !.crash = TRUE]
             ELSE IF r.skip THEN BridgeLoop(entries, i + 1, acc)
             ELSE BridgeLoop(entries, i + 1,
                    Lists(FALSE, Append(acc.all_templates, r.triple.tid),
                          IF r.kind = "bridge_in"
                          THEN Append(acc.bridge_ins, r.triple) ELSE acc.bridge_ins,
                          IF r.kind = "musd"
                          THEN Append(acc.musd_tokens, r.triple) ELSE acc.musd_tokens))

\* Counter(all_templates)
Counter(seq) == [x \in {seq[i] : i \in 1..Len(seq)} |-> Count(seq, x)]

\* the printed block of one triple; cid[:50] raises on a number or None,
\* args.get on what is no dict
CanShowTriple(tr) == IsDict(tr.args) /\ tr.cid.ty \in {"str", "list"}
\* the lines of triples[:n]: up to the first that raises
ShowTriples(tag, triples, n) ==
    LET m == Min(Len(triples), n)
        bad == {i \in 1..m : ~CanShowTriple(triples[i])}
        upto == IF bad = {} THEN m
                ELSE (CHOOSE i \in bad : \A j \in bad : i <= j) - 1
    IN  [crash |-> bad # {},
         lines |-> [i \in 1..upto |-> Line(tag, triples[i].cid, 0)]]

\* the lines under "=== All Template Types ===", one per distinct tid
TypeLines(all) ==
    [i \in 1..Len(Uniq(all)) |->
        Line("type", JStr(ShortName(StrOf(Uniq(all)[i]))), Count(all, Uniq(all)[i]))]
\* Counter raises on a tid that is not hashable, tid.split on one that is no str
TypesRaise(all) == \E i \in 1..Len(all) : ~IsStr(all[i])
MoreLine(ins) ==
    IF Len(ins) > ShowFirstIns
    THEN <<Line("more", JNull, Len(ins) - ShowFirstIns)>> ELSE <<>>

\* the prints that follow the loop
BridgeReport(r) ==
    IF TypesRaise(r.all_templates)
    THEN Ran(TRUE, <<Line("All Template Types", JNull, 0)>>, EmptyDict)
    ELSE IF ShowTriples("bridge-in", r.bridge_ins, ShowFirstIns).crash
    THEN Ran(TRUE,
             <<Line("All Template Types", JNull, 0)>>
             \o TypeLines(r.all_templates)
             \o <<Line("BridgeInRequests", JNull, Len(r.bridge_ins))>>
             \o ShowTriples("bridge-in", r.bridge_ins, ShowFirstIns).lines,
             Counter(r.all_templates))
    ELSE Ran(ShowTriples("musd", r.musd_tokens, Len(r.musd_tokens)).crash,
             <<Line("All Template Types", JNull, 0)>>
             \o TypeLines(r.all_templates)
             \o <<Line("BridgeInRequests", JNull, Len(r.bridge_ins))>>
             \o ShowTriples("bridge-in", r.bridge_ins, ShowFirstIns).lines
             \o MoreLine(r.bridge_ins)
             \o <<Line("mUSD Tokens", JNull, Len(r.musd_tokens))>>
             \o ShowTriples("musd", r.musd_tokens, Len(r.musd_tokens)).lines,
             Counter(r.all_templates))

\* `print(f"Total entries: {len(entries)}")` and what follows, for entries
\* that are a list
BridgeAfterLoop(n, r) ==
    IF r.crash THEN Ran(TRUE, <<Line("Total entries", JNull, n)>>, EmptyDict)
    ELSE Then(<<Line("Total entries", JNull, n)>>, BridgeReport(r))
BridgeList(entries) ==
    BridgeAfterLoop(Len(entries),
                    BridgeLoop(entries, 1, Lists(FALSE, <<>>, <<>>, <<>>)))

\* the same for entries that are a str or a dict: len() of it, then
\* entry.get raises on its first character or key
BridgeNoList(n) ==
    IF n > 0 THEN Ran(TRUE, <<Line("Total entries", JNull, n)>>, EmptyDict)
    ELSE Then(<<Line("Total entries", JNull, 0)>>,
              BridgeReport(Lists(FALSE, <<>>, <<>>, <<>>)))

\* the script from `data = json.loads(resp.read())` to its end
BridgeMain(o) ==
    IF Loads(o) = Invalid THEN Ran(TRUE, <<>>, EmptyDict)
    ELSE CASE IsList(BridgeEntries(Loads(o))) ->
                  BridgeList(BridgeEntries(Loads(o)).elems)
           [] IsStr(BridgeEntries(Loads(o))) ->
                  BridgeNoList(Len(BridgeEntries(Loads(o)).s))
           [] IsDict(BridgeEntries(Loads(o))) ->
                  BridgeNoList(Len(BridgeEntries(Loads(o)).items))
           [] OTHER -> Ran(TRUE, <<>>, EmptyDict)

BrEntries ==
    {Plain("js", EvBridge), Plain("js", EvMUSD), Plain("js", EvNoTid),
     Plain("js", Event(<<"pkg", ":", "Minted", ".Protocol.", "V3", ":", "BridgeInRequest">>, "c5",
                 << <<"nonce", JNum(1)>>, <<"status", Tok("pending")>> >>)),
     Plain("flat", EvToken), EmptyEntry, NullEntry,
     Entry(<< Carrier("js", JNull) >>), NoEntry}

BridgeActiveContracts ==
    /\ script = "check-bridge-contracts"
    /\ pc = "active_contracts"
    /\ \E o \in NonListOutcomes \cup ListOutcomes(BrEntries) :
        LET r == BridgeMain(o) IN
        /\ requests' = Append(requests,
                              Request("active-contracts", call, PARTY, offset, "", <<>>, o))
        /\ printed' = printed \o r.lines
        /\ templates' = r.templates
        /\ pc' = IF r.crash THEN "crashed" ELSE "done"
    /\ UNCHANGED <<script, call, offset, returned, found, now, issued, coverage, results>>

(***************************************************************************)
(* test-canton-api.py                                                      *)
(***************************************************************************)
\* x[:n] raises on a number, a bool or None
Sliceable(v) == v.ty \in {"str", "list"}

\* which branch of the if/elif chain a templateId takes (`needle in tid`)
ApiClass(tid) ==
    CASE Contains(tid, <<"Canton", "Direct", "Mint", ":", "Canton", "MUSD">>) -> "musd"
      [] Contains(tid, <<"V3", ":", "BridgeService">>) -> "bridge"
      [] Contains(tid, <<"Canton", "S", "MUSD", ":", "Canton", "Staking", "Service">>)
             -> "staking"
      [] Contains(tid, <<"Canton", "ETHPool", ":", "Canton", "ETHPool", "Service">>)
             -> "ethpool"
      [] Contains(tid, <<"Canton", "BoostPool", ":", "Canton", "BoostPool", "Service">>)
             -> "boostpool"
      [] Contains(tid, <<"Canton", "Lending", ":", "Canton", "Lending", "Service">>)
             -> "lending"
      [] Contains(tid, <<"Canton", "Direct", "Mint", ":", "Canton", "Direct", "Mint",
                         "Service">>) -> "directmint"
      [] OTHER -> "none"

Acc(crash, f) == [crash |-> crash, found |-> f]
Field(args, k) == <<k, GetOr(args, k, JStr(<<>>))>>

\* the branch taken for one createdEvent with a str templateId
ApiBranch(f, class, ev, args) ==
    CASE class = "musd" ->
             IF IsDict(args)
             THEN Acc(FALSE, [f EXCEPT !.mUSD_tokens =
                      Append(@, JDict(<<Field(args, "owner"), Field(args, "amount")>>))])
             ELSE Acc(TRUE, f)
      [] class = "bridge" ->
             IF IsDict(args) /\ Sliceable(GetOr(args, "operator", JStr(<<>>)))
             THEN Acc(FALSE, [f EXCEPT !.bridge =
                      JDict(<<Field(args, "operator"), Field(args, "paused")>>)])
             ELSE Acc(TRUE, f)
      [] class = "staking" ->
             IF IsDict(args)
             THEN Acc(FALSE, [f EXCEPT !.staking = JDict(<<Field(args, "totalShares")>>)])
             ELSE Acc(TRUE, f)
      [] class = "ethpool" ->
             IF IsDict(args)
             THEN Acc(FALSE, [f EXCEPT !.ethpool = JDict(<<Field(args, "poolCap")>>)])
             ELSE Acc(TRUE, f)
      [] class = "boostpool" ->
             IF IsDict(args)
             THEN Acc(FALSE, [f EXCEPT !.boostpool = JDict(<<Field(args, "totalLPShares")>>)])
             ELSE Acc(TRUE, f)
      [] class = "lending" -> Acc(FALSE, [f EXCEPT !.lending = JBool(TRUE)])
      [] class = "directmint" ->
             IF Sliceable(GetOr(ev, "contractId", JStr(<<>>)))
             THEN Acc(FALSE, [f EXCEPT !.directmint =
                      Append(@, GetOr(ev, "contractId", JStr(<<>>)))])
             ELSE Acc(TRUE, f)
      [] OTHER -> Acc(FALSE, f)

\* the body of `if isinstance(v, dict) and "createdEvent" in v` for ev =
\* v["createdEvent"]; a templateId that is a dict or list matches no needle,
\* one that is a number or None raises
ApiEvent(f, ev) ==
    IF ~IsDict(ev) THEN Acc(TRUE, f)
    ELSE IF IsStr(GetOr(ev, "templateId", JStr(<<>>)))
    THEN ApiBranch(f, ApiClass(GetOr(ev, "templateId", JStr(<<>>)).s), ev,
                   GetOr(ev, "createArgument", JDict(<<>>)))
    ELSE Acc(GetOr(ev, "templateId", JStr(<<>>)).ty \notin {"dict", "list"}, f)

\* `for k, v in ce.items()`, from item i on (there is no break)
\* continue with `rest` unless the step raised
AndThen(acc, rest) == IF acc.crash THEN acc ELSE rest

RECURSIVE ApiItems(_, _, _)
ApiItems(items, i, f) ==
    IF i > Len(items) THEN Acc(FALSE, f)
    ELSE IF IsDict(items[i][2]) /\ Has(items[i][2], "createdEvent")
    THEN LET acc == ApiEvent(f, Get(items[i][2], "createdEvent"))
         IN  AndThen(acc, ApiItems(items, i + 1, acc.found))
    ELSE ApiItems(items, i + 1, f)

\* `for entry in data`, from entry i on
RECURSIVE ApiLoop(_, _, _)
ApiLoop(entries, i, f) ==
    IF i > Len(entries) THEN Acc(FALSE, f)
    ELSE IF ~IsDict(entries[i])
            \/ ~IsDict(GetOr(entries[i], "contractEntry", JDict(<<>>)))
    THEN Acc(TRUE, f)
    ELSE LET acc == ApiItems(GetOr(entries[i], "contractEntry", JDict(<<>>)).items, 1, f)
         IN  AndThen(acc, ApiLoop(entries, i + 1, acc.found))

ShowTokens == 3
\* the status report; t['owner'][:40] raises on an owner that cannot be sliced
ApiReport(f) ==
    LET n == Min(Len(f.mUSD_tokens), ShowTokens)
        bad == {i \in 1..n : ~Sliceable(Get(f.mUSD_tokens[i], "owner"))}
    IN  IF bad # {}
        THEN [crash |-> TRUE,
              lines |-> <<Line("Canton Protocol Status", JNull, 0),
                          Line("mUSD tokens", JNull, Len(f.mUSD_tokens))>>
                        \o [i \in 1..((CHOOSE i \in bad : \A j \in bad : i <= j) - 1) |->
                               Line("token", f.mUSD_tokens[i], 0)]]
        ELSE [crash |-> FALSE,
              lines |-> <<Line("Canton Protocol Status", JNull, 0),
                          Line("mUSD tokens", JNull, Len(f.mUSD_tokens))>>
                        \o [i \in 1..n |-> Line("token", f.mUSD_tokens[i], 0)]
                        \o <<Line("BridgeService", f.bridge, 0),
                             Line("StakingService", f.staking, 0),
                             Line("ETHPoolService", f.ethpool, 0),
                             Line("BoostPoolService", f.boostpool, 0),
                             Line("LendingService", f.lending, 0),
                             Line("DirectMintService", JNull, Len(f.directmint)),
                             Line("Canton API is WORKING! All protocol contracts are live.",
                                  JNull, 0),
                             Line("Frontend should connect successfully when started.",
                                  JNull, 0)>>]

ApiRan(crash, lines, f) == [crash |-> crash, lines |-> lines, found |-> f]
\* what `for entry in data` iterates over: the elements of a list, the keys
\* of a dict, the characters of a str
ApiIterable(data) ==
    CASE IsList(data) -> data.elems
      [] IsDict(data) -> [i \in 1..Len(data.items) |-> Tok(data.items[i][1])]
      [] OTHER        -> [i \in 1..Len(data.s) |-> Tok(data.s[i])]

\* the prints after the loop, or none when the loop raised
ApiAfterLoop(acc) ==
    IF acc.crash THEN ApiRan(TRUE, <<>>, acc.found)
    ELSE ApiRan(ApiReport(acc.found).crash, ApiReport(acc.found).lines, acc.found)

\* the script from `data = json.loads(r.read())` to its end
ApiMain(o) ==
    IF Loads(o).ty \notin {"list", "dict", "str"} THEN ApiRan(TRUE, <<>>, NoFound)
    ELSE ApiAfterLoop(ApiLoop(ApiIterable(Loads(o)), 1, NoFound))

ApiEvents ==
    {EvMUSD, EvBridge, EvToken,
     Event(<<"pkg", ":", "Canton", "S", "MUSD", ":", "Canton", "Staking", "Service">>,
           "c6", << <<"totalShares", Tok("10.0")>> >>),
     Event(<<"pkg", ":", "Canton", "ETHPool", ":", "Canton", "ETHPool", "Service">>,
           "c7", << <<"poolCap", Tok("100.0")>> >>),
     Event(<<"pkg", ":", "Canton", "BoostPool", ":", "Canton", "BoostPool", "Service">>,
           "c8", << <<"totalLPShares", Tok("1.0")>> >>),
     Event(<<"pkg", ":", "Canton", "Lending", ":", "Canton", "Lending", "Service">>,
           "c9", <<>>),
     Event(<<"pkg", ":", "Canton", "Direct", "Mint", ":", "Canton", "Direct", "Mint", "Service">>,
           "c10", <<>>)}
ApiEntries == {Plain(sh, ev) : sh \in {"flat", "js"}, ev \in ApiEvents}
              \cup {Plain("party", EvBridge), NullEntry, NoEntry}

ApiLedgerEnd == LedgerEndStrict("test-canton-api", "Offset")

ApiActiveContracts ==
    /\ script = "test-canton-api"
    /\ pc = "active_contracts"
    /\ \E o \in NonListOutcomes \cup ListOutcomes(ApiEntries) :
        LET r == ApiMain(o) IN
        /\ requests' = Append(requests,
                              Request("active-contracts", call, PARTY, offset, "", <<>>, o))
        /\ printed' = printed \o r.lines
        /\ found' = r.found
        /\ pc' = IF r.crash THEN "crashed" ELSE "done"
    /\ UNCHANGED <<script, call, offset, templates, returned, now, issued, coverage, results>>

(***************************************************************************)
(* query-acs.py                                                            *)
(***************************************************************************)
Party(n) == IF n = 1 THEN PARTY ELSE OPERATOR
Label(n) == IF n = 1 THEN "validator-1" ELSE "operator"

\* the first lines of query_acs: the header, the ledger-end call, the offset
QueryLedgerEnd ==
    /\ script = "query-acs"
    /\ pc = "ledger_end"
    /\ \E o \in LedgerEndOutcomes :
        /\ requests' = Append(requests,
                              Request("ledger-end", call, "", JNull, "", <<>>, o))
        /\ IF HasOffset(o)
           THEN /\ offset' = Get(Loads(o), "offset")
                /\ printed' = printed \o <<Line("ACS for", Tok(Label(call)), call),
                                           Line("Ledger offset", Get(Loads(o), "offset"), 0)>>
                /\ pc' = "active_contracts"
           ELSE /\ offset' = offset
                /\ printed' = Append(printed, Line("ACS for", Tok(Label(call)), call))
                /\ pc' = "crashed"
    /\ UNCHANGED <<script, call, templates, returned, found, now, issued, coverage, results>>

Contract(cid, tid, pkg) == [cid |-> cid, tid |-> tid, pkg |-> pkg]
Parsed(kept, shown, c) == [kept |-> kept, shown |-> shown, contract |-> c]
Skipped == Parsed(FALSE, FALSE, Contract(JNull, JNull, JNull))
\* {"cid": cid, "tid": tid, "pkg": pkg} of a createdEvent
ContractOf(evt) ==
    Contract(GetOr(evt, "contractId", Tok("?")), GetOr(evt, "templateId", Tok("?")),
             GetOr(evt, "packageName", Tok("?")))
\* a try block that prints the contract before it appends it
QueryLinePrintFirst(d) ==
    IF d = Invalid \/ AcsIn(d) # "yes" \/ ~IsDict(d) THEN Skipped
    ELSE IF ~IsDict(Get(d, "contractEntry")) THEN Skipped
    ELSE IF ~IsDict(GetOr(Get(d, "contractEntry"), "createdEvent", JDict(<<>>)))
    THEN Skipped
    ELSE IF ~Sliceable(GetOr(GetOr(Get(d, "contractEntry"), "createdEvent",
                                   JDict(<<>>)), "contractId", Tok("?")))
    THEN Skipped
    ELSE Parsed(TRUE, TRUE,
                ContractOf(GetOr(Get(d, "contractEntry"), "createdEvent", JDict(<<>>))))

\* the try block for one line d; whatever raises in it is passed over, also
\* the print that follows the append
QueryLine(d) ==
    IF d = Invalid \/ AcsIn(d) # "yes" \/ ~IsDict(d) THEN Skipped
    ELSE IF ~IsDict(Get(d, "contractEntry")) THEN Skipped
    ELSE IF ~IsDict(GetOr(Get(d, "contractEntry"), "createdEvent", JDict(<<>>)))
    THEN Skipped
    ELSE Parsed(TRUE,
                Sliceable(GetOr(GetOr(Get(d, "contractEntry"), "createdEvent",
                                      JDict(<<>>)), "contractId", Tok("?"))),
                ContractOf(GetOr(Get(d, "contractEntry"), "createdEvent", JDict(<<>>))))

\* contracts after `for line in data.strip().split("\n")`
RECURSIVE QueryContracts(_)
QueryContracts(lines) ==
    IF lines = <<>> THEN <<>>
    ELSE (IF QueryLine(Head(lines)).kept THEN <<QueryLine(Head(lines)).contract>>
          ELSE <<>>) \o QueryContracts(Tail(lines))
\* the lines printed in that loop
RECURSIVE QueryShown(_)
QueryShown(lines) ==
    IF lines = <<>> THEN <<>>
    ELSE (IF QueryLine(Head(lines)).shown
          THEN <<Line("contract", QueryLine(Head(lines)).contract.cid, 0)>>
          ELSE <<>>) \o QueryShown(Tail(lines))
NoneFound(contracts) ==
    IF contracts = <<>> THEN <<Line("(no contracts found)", JNull, 0)>> ELSE <<>>

\* whether a contract goes to ble_cids; `"Minted" in mod` raises on a
\* moduleName that is a number or None
ModuleOf(tid) == GetOr(tid, "moduleName", JStr(<<>>))
BleRaises(c) == IsDict(c.tid) /\ ModuleOf(c.tid).ty \notin {"str", "dict", "list"}
IsBle(c) ==
    \/ IsStr(c.tid) /\ Contains(c.tid.s, <<"Minted">>)
    \/ /\ IsDict(c.tid) /\ IsStr(ModuleOf(c.tid))
       /\ \/ Contains(ModuleOf(c.tid).s, <<"Minted">>)
          \/ Contains(ModuleOf(c.tid).s, <<"Compliance">>)
          \/ Contains(ModuleOf(c.tid).s, <<"Canton", "Direct">>)
          \/ Contains(ModuleOf(c.tid).s, <<"Canton", "Coin">>)
\* the module body after the two calls, for all = c1 + c2
QueryPurge(all) ==
    IF \E i \in 1..Len(all) : BleRaises(all[i]) THEN [crash |-> TRUE, lines |-> <<>>]
    ELSE LET ble == SelectSeq(all, IsBle)
         IN  [crash |-> FALSE,
              lines |-> IF ble # <<>>
                        THEN <<Line("BLE Protocol Contracts to Purge", JNull, Len(ble))>>
                             \o [i \in 1..Len(ble) |-> Line("purge", ble[i].cid, 0)]
                        ELSE <<Line("No BLE protocol contracts found.", JNull, 0)>>]

QLines ==
    {Plain("flat", EvBridge), Plain("js", EvToken), NullEntry, Invalid,
     Plain("flat", JDict(<< <<"contractId", JNum(7)>> >>))}
QEntries == {Plain("flat", EvBridge), Plain("js", EvToken)}
QOutcomes ==
    {Refused, Ok(PrettyBody(<<Plain("flat", EvBridge)>>))}
    \cup {Ok(NdjsonBody(ls)) : ls \in SeqsUpTo(QLines, MaxEntries)}
    \cup {Ok(DocBody(JList(es))) : es \in SeqsUpTo(QEntries, MaxEntries)}

\* the rest of query_acs from the active-contracts call on and, after the
\* second call, the rest of the module
QueryActiveContracts ==
    /\ script = "query-acs"
    /\ pc = "active_contracts"
    /\ \E o \in QOutcomes :
        LET contracts == QueryContracts(o.body.lines)
            purge == QueryPurge(Head(returned \o <<contracts>>) \o contracts)
        IN
        /\ requests' = Append(requests,
                              Request("active-contracts", call, Party(call), offset, "", <<>>, o))
        /\ IF o.status # "ok"
           THEN /\ pc' = "crashed"
                /\ UNCHANGED <<call, printed, returned>>
           ELSE /\ returned' = Append(returned, contracts)
                /\ IF call = 1
                   THEN /\ call' = 2
                        /\ pc' = "ledger_end"
                        /\ printed' = printed \o QueryShown(o.body.lines)
                                              \o NoneFound(contracts)
                   ELSE /\ call' = call
                        /\ pc' = IF purge.crash THEN "crashed" ELSE "done"
                        /\ printed' = printed \o QueryShown(o.body.lines)
                                              \o NoneFound(contracts) \o purge.lines
    /\ UNCHANGED <<script, offset, templates, found, now, issued, coverage, results>>

(***************************************************************************)
(* bootstrap-http.py                                                       *)
(***************************************************************************)
\* what random.choices(string.ascii_lowercase, k=6) is taken to draw
SuffixDraws == {<<"a", "a", "a", "a", "a", "a">>, <<"a", "a", "a", "a", "a", "b">>,
                <<"q", "w", "e", "r", "t", "y">>}
\* ''.join(letters)
RECURSIVE Join(_)
Join(letters) == IF letters = <<>> THEN "" ELSE Head(letters) \o Join(Tail(letters))

\* a command id that leaves the random suffix out
CmdIdNoSuffix(t, letters) == "init-" \o ToString(t)

\* cmd_id(), for t = int(time.time()) and the letters drawn
CmdId(t, letters) == "init-" \o ToString(t) \o "-" \o Join(letters)

\* what the submit-and-wait endpoint is taken to answer
SubmitOutcomes ==
    {Refused, HttpError(DocBody(ErrorDoc)), Ok(DocBody(Invalid)),
     Ok(DocBody(JDict(<< <<"updateId", Tok("u1")>> >>)))}

\* submit(): (ok, result), or raised when urlopen raises something that is no
\* HTTPError or json.loads raises
Submitted(raised, ok, result) == [raised |-> raised, ok |-> ok, result |-> result]
\* a submit() that catches whatever urlopen or json.loads raises
SubmitCatchAll(o) ==
    CASE o.status = "ok" /\ o.body.doc # Invalid -> Submitted(FALSE, TRUE, o.body.doc)
      [] OTHER -> Submitted(FALSE, FALSE, o.body.doc)

Submit(o) ==
    CASE o.status = "http_error" -> Submitted(FALSE, FALSE, o.body.doc)
      [] o.status = "ok" /\ o.body.doc # Invalid -> Submitted(FALSE, TRUE, o.body.doc)
      [] OTHER -> Submitted(TRUE, FALSE, JNull)

\* one step of main: the print, create_contract(module, entity, ...) and the
\* print of its result
Create(at, entity, next) ==
    /\ script = "bootstrap-http"
    /\ pc = at
    /\ \E t \in 0..MaxClock, letters \in SuffixDraws, o \in SubmitOutcomes :
        /\ now' = t
        /\ issued' = Append(issued, [t |-> t, letters |-> letters,
                                     id |-> CmdId(t, letters)])
        /\ requests' = Append(requests,
                              Request("submit-and-wait", call, OPERATOR, JNull,
                                      CmdId(t, letters), <<entity>>, o))
        /\ IF Submit(o).raised
           THEN /\ printed' = Append(printed, Line("Creating", Tok(entity), 0))
                /\ pc' = "crashed"
           ELSE /\ printed' = printed
                       \o <<Line("Creating", Tok(entity), 0),
                            Line(IF Submit(o).ok THEN "created" ELSE "failed",
                                 IF Submit(o).ok THEN Tok(entity) ELSE Submit(o).result, 0)>>
                       \o (IF next = "done" THEN <<Line("Done", JNull, 0)>> ELSE <<>>)
                /\ pc' = next
    /\ UNCHANGED <<script, call, offset, templates, returned, found, coverage, results>>

CreateBridgeService == Create("bridge_service", "BridgeService", "liquidity_pool")
CreateLiquidityPool == Create("liquidity_pool", "LiquidityPool", "done")

(***************************************************************************)
(* coverage_report.py                                                      *)
(***************************************************************************)
\* The hit counts of coverage.json.  A file's info is kept as the values of
\* its maps: s and f as sequences of counts, b as a sequence of lists of
\* counts; a key that is missing reads as the empty map (info.get(k, {})).
HitCounts == {0, 1, 12}
Info(s, b, f) == [s |-> s, b |-> b, f |-> f]
Infos ==
    {Info(s, b, f) : s \in SeqsUpTo(HitCounts, MaxStmts),
                     b \in {<<>>, << <<>> >>, << <<0, 1>> >>, << <<0, 0>>, <<12>> >>},
                     f \in SeqsUpTo({0, 1}, MaxStmts - 1)}
File(path, info) == [path |-> path, info |-> info]
\* what coverage.json is taken to hold, as sorted(data.items())
CoverageFiles ==
    {<<>>}
    \cup {<<File(<<"contracts", "/", "MUSD", ".sol">>, i)>> : i \in Infos}
    \cup {<<File(<<"contracts", "/", "MUSD", ".sol">>, i),
            File(<<"contracts", "/", "mocks", "/", "Mock", "Token", ".sol">>,
                 Info(<<1>>, <<>>, <<1>>))>> : i \in Infos}
    \cup {<<File(<<"contracts", "/", "Test", "Helper", ".sol">>, Info(<<0>>, <<>>, <<>>)),
            File(<<"contracts", "/", "Vault", ".sol">>, i)>> : i \in Infos}

core == {<<"BLEBridgeV9">>, <<"BorrowModule">>, <<"CollateralVault">>,
         <<"DirectMintV2">>, <<"MUSD">>, <<"TreasuryV2">>, <<"LeverageVault">>,
         <<"LiquidationEngine">>, <<"PriceOracle">>, <<"SMUSD">>,
         <<"RedemptionQueue">>, <<"InterestRateModel">>}

\* path.split("/")[-1].replace(".sol", "")
AfterLastSlash(path) ==
    IF \E i \in 1..Len(path) : path[i] = "/"
    THEN SubSeq(path, 1 + CHOOSE i \in 1..Len(path) :
                    path[i] = "/" /\ \A j \in (i + 1)..Len(path) : path[j] # "/",
                Len(path))
    ELSE path
NameOf(path) == SelectSeq(AfterLastSlash(path), LAMBDA tok : tok # ".sol")

\* sum(1 for v in values if v >= 0)
CountAll(values) == Cardinality({i \in 1..Len(values) : values[i] >= 0})

\* sum(1 for v in values if v > 0)
CountHit(values) == Cardinality({i \in 1..Len(values) : values[i] > 0})

\* blist for every b value, one after the other
RECURSIVE Flatten(_)
Flatten(lists) == IF lists = <<>> THEN <<>> ELSE Head(lists) \o Flatten(Tail(lists))

\* (hit / total * 100) if total else 0, as the fraction num/den
Pct(hit, total) ==
    IF total # 0 THEN [num |-> hit * 100, den |-> total] ELSE [num |-> 0, den |-> 1]

\* the tuple appended to results for one file
ResultOf(name, info) ==
    [name |-> name,
     pct_s |-> Pct(IF Len(info.s) # 0 THEN CountHit(info.s) ELSE 0, Len(info.s)),
     pct_b |-> Pct(IF Len(Flatten(info.b)) # 0 THEN CountHit(Flatten(info.b)) ELSE 0,
                   Len(Flatten(info.b))),
     pct_f |-> Pct(IF Len(info.f) # 0 THEN CountHit(info.f) ELSE 0, Len(info.f)),
     is_core |-> name \in core]

\* "Mock" in name or "Test" in name
Skip(name) == Contains(name, <<"Mock">>) \/ Contains(name, <<"Test">>)

\* the for loop over sorted(data.items())
RECURSIVE CoverageLoop(_)
CoverageLoop(files) ==
    IF files = <<>> THEN <<>>
    ELSE (IF Skip(NameOf(Head(files).path)) THEN <<>>
          ELSE <<ResultOf(NameOf(Head(files).path), Head(files).info)>>)
         \o CoverageLoop(Tail(files))

\* data = json.load(open("coverage.json")); open or json.load may raise
CoverageLoad ==
    /\ script = "coverage_report"
    /\ pc = "load"
    /\ \/ /\ pc' = "crashed"
          /\ UNCHANGED coverage
       \/ \E files \in CoverageFiles :
            /\ coverage' = files
            /\ pc' = "report"
    /\ UNCHANGED <<script, call, requests, offset, printed, templates, returned,
                   found, now, issued, results>>

\* the header, the table and the core table
CoverageReport ==
    /\ script = "coverage_report"
    /\ pc = "report"
    /\ results' = CoverageLoop(coverage)
    /\ printed' = <<Line("header", JNull, 0)>>
                  \o [i \in 1..Len(CoverageLoop(coverage)) |->
                         Line("row", JStr(CoverageLoop(coverage)[i].name), 0)]
                  \o <<Line("12 CORE CONTRACTS", JNull, 0)>>
                  \o [i \in 1..Len(SelectSeq(CoverageLoop(coverage),
                                            LAMBDA r : r.is_core)) |->
                         Line("core row",
                              JStr(SelectSeq(CoverageLoop(coverage),
                                             LAMBDA r : r.is_core)[i].name), 0)]
    /\ pc' = "done"
    /\ UNCHANGED <<script, call, requests, offset, templates, returned, found,
                   now, issued, coverage>>

NextSnapshot ==
    \/ AcsLedgerEnd
    \/ AcsActiveContracts
    \/ CcGetOffset
    \/ CcQueryContracts
    \/ BridgeLedgerEnd
    \/ BridgeActiveContracts
    \/ ApiLedgerEnd
    \/ ApiActiveContracts
    \/ QueryLedgerEnd
    \/ QueryActiveContracts

NextSubmit ==
    \/ CreateBridgeService
    \/ CreateLiquidityPool

NextCoverage ==
    \/ CoverageLoad
    \/ CoverageReport

Next == NextSnapshot \/ NextSubmit \/ NextCoverage

\* a run of any script
Spec == Init /\ [][Next]_vars

\* the runs of the snapshot-query scripts
InitSnapshot == Init /\ script \in SnapshotScripts
SpecSnapshot == InitSnapshot /\ [][NextSnapshot]_vars

\* the runs of bootstrap-http.py
InitSubmit == Init /\ script = "bootstrap-http"
SpecSubmit == InitSubmit /\ [][NextSubmit]_vars

\* the runs of coverage_report.py
InitCoverage == Init /\ script = "coverage_report"
SpecCoverage == InitCoverage /\ [][NextCoverage]_vars

(***************************************************************************)
(* Properties.                                                             *)
(***************************************************************************)
\* the printed lines of one kind
Printed(tag) == SelectSeq(printed, LAMBDA l : l.tag = tag)
RECURSIVE SumN(_)
SumN(lines) == IF lines = <<>> THEN 0 ELSE Head(lines).n + SumN(Tail(lines))

\* the response to the last active-contracts request, as json.loads gives it
LastRequest == requests[Len(requests)]
LastData    == Loads(LastRequest.outcome)
Finished(name) ==
    /\ script = name
    /\ pc = "done"
    /\ LastRequest.kind = "active-contracts"

\* The createdEvent of an entry, wherever it sits: directly under
\* contractEntry, or under the one key of contractEntry whose value holds it.
EventOf(e) ==
    LET ce == Get(e, "contractEntry") IN
    IF Has(ce, "createdEvent") THEN Get(ce, "createdEvent")
    ELSE Get(ce.items[CHOOSE i \in 1..Len(ce.items) :
                 IsDict(ce.items[i][2]) /\ Has(ce.items[i][2], "createdEvent")][2],
             "createdEvent")
HasEvent(e) ==
    /\ IsDict(e) /\ Has(e, "contractEntry") /\ IsDict(Get(e, "contractEntry"))
    /\ LET ce == Get(e, "contractEntry") IN
       \/ Has(ce, "createdEvent")
       \/ \E i \in 1..Len(ce.items) :
              IsDict(ce.items[i][2]) /\ Has(ce.items[i][2], "createdEvent")
\* how many entries of a response have a createdEvent with this templateId
ManualTally(es, tid) ==
    Cardinality({i \in 1..Len(es) :
        /\ HasEvent(es[i]) /\ IsDict(EventOf(es[i]))
        /\ Has(EventOf(es[i]), "templateId")
        /\ Get(EventOf(es[i]), "templateId") = tid})

\* C1: in check-acs.py, for every response that is a JSON list, the printed
\* per-template counts sum to the printed 'Total active contracts' (the number
\* of elements that carry a contractEntry key), and each printed count is the
\* number of those entries whose createdEvent has that templateId (read for
\* the lines that show a templateId some entry carries).
C1_CountsSumToTotal ==
    (Finished("check-acs") /\ IsList(LastData)) =>
        /\ Len(Printed("Total active contracts")) = 1
        /\ Printed("Total active contracts")[1].n
               = Cardinality({i \in 1..Len(LastData.elems) :
                                 Has(LastData.elems[i], "contractEntry")})
        /\ SumN(Printed("count")) = Printed("Total active contracts")[1].n
        /\ \A i \in 1..Len(Printed("count")) :
               ManualTally(LastData.elems, Printed("count")[i].v) > 0 =>
                   Printed("count")[i].n
                       = ManualTally(LastData.elems, Printed("count")[i].v)

\* C3: in check-acs.py the templateId taken for an entry is that of its
\* createdEvent whichever of the three shapes wraps it and whatever other keys
\* surround it: for a response of such entries, every templateId is printed
\* with the number of entries whose createdEvent carries it ("unknown" for a
\* createdEvent without templateId), and nothing else is printed as a count.
TidOrUnknown(ev) == GetOr(ev, "templateId", Tok("unknown"))
C3_ShapeIndependentTemplate ==
    (/\ Finished("check-acs") /\ IsList(LastData)
     /\ \A i \in 1..Len(LastData.elems) : LastData.elems[i] \in WellFormed) =>
        LET es == LastData.elems
            tids == {TidOrUnknown(EventOf(es[i])) : i \in 1..Len(es)}
        IN  /\ {Printed("count")[i].v : i \in 1..Len(Printed("count"))} = tids
            /\ Len(Printed("count")) = Cardinality(tids)
            /\ \A i \in 1..Len(Printed("count")) :
                   Printed("count")[i].n
                       = Cardinality({j \in 1..Len(es) :
                            TidOrUnknown(EventOf(es[j])) = Printed("count")[i].v})
\* the spec's scenario: BridgeService under JsActiveContract, Token flat
C3_Witness ==
    /\ Finished("check-acs")
    /\ LastData = JList(<<Plain("js", EvBridge), Plain("flat", EvToken)>>)
    /\ templates = (JStr(BridgeTid) :> 1) @@ (JStr(TokenTid) :> 1)
    /\ Len(Printed("count")) = 2

\* C2: in check-canton-contracts.py, for every list response, the reported
\* 'N contract(s)' of all reported templates sum to the reported 'Total
\* active contracts'.
C2_SectionsSumToTotal ==
    (Finished("check-canton-contracts") /\ IsList(LastData)) =>
        /\ Len(Printed("Total active contracts")) = 1
        /\ SumN(Printed("section")) = Printed("Total active contracts")[1].n

\* the same createdEvent wrapped under JsActiveContract
Rewrapped(es) == [i \in 1..Len(es) |-> Plain("js", EventOf(es[i]))]

AcsRequestOf(n) ==
    requests[CHOOSE i \in 1..Len(requests) :
                 requests[i].kind = "active-contracts" /\ requests[i].call = n]

\* C5: query_acs returns the same collection of contracts whether the response
\* body is one JSON array of entries or the same entries as newline-delimited
\* JSON records: a first call answered with the array and a second call
\* answered with the records return the same list.
C5_ArrayAsNdjson ==
    (/\ script = "query-acs" /\ Len(returned) = 2
     /\ \E es \in SeqsUpTo(QEntries, MaxEntries) :
            /\ AcsRequestOf(1).outcome = Ok(DocBody(JList(es)))
            /\ AcsRequestOf(2).outcome = Ok(NdjsonBody(es))) =>
        returned[1] = returned[2]

\* the lines of a contract summary, and the lines that show a response
SummaryTags == {"Total active contracts", "count", "Templates found", "section",
                "contract fields", "contract keys", "more", "Total entries",
                "All Template Types", "type", "BridgeInRequests", "bridge-in",
                "mUSD Tokens", "musd"}
ResponseTags == {"Error", "json", "Unexpected response type", "str",
                 "Unexpected response"}
Tags == {printed[i].tag : i \in 1..Len(printed)}

\* C7: in check-acs.py, check-canton-contracts.py and
\* check-bridge-contracts.py, when the active-contracts response is not a list
\* of entries, the script prints the offending response or error and stops
\* without printing any contract summary.
C7_NonListPrintedNoSummary ==
    (/\ script \in {"check-acs", "check-canton-contracts", "check-bridge-contracts"}
     /\ pc \in {"done", "crashed"}
     /\ LastRequest.kind = "active-contracts"
     /\ LastData # Invalid /\ ~IsList(LastData)) =>
        /\ Tags \cap SummaryTags = {}
        /\ Tags \cap ResponseTags # {}

\* C10: in every snapshot-query script an active-contracts request is sent
\* only after a ledger-end request of the same run (of the same query_acs
\* call) has completed, with activeAtOffset the offset that response returned;
\* none is sent when the ledger-end call fails or its response has no offset.
AfterLedgerEnd(i) ==
    /\ i > 1
    /\ requests[i - 1].kind = "ledger-end"
    /\ requests[i - 1].call = requests[i].call
    /\ requests[i - 1].outcome.status = "ok"
C10_OffsetFromLedgerEnd ==
    \A i \in 1..Len(requests) :
        requests[i].kind = "active-contracts" =>
            /\ AfterLedgerEnd(i)
            /\ HasOffset(requests[i - 1].outcome)
            /\ requests[i].activeAtOffset
                   = Get(Loads(requests[i - 1].outcome), "offset")

\* C10, with the default of check-bridge-contracts.py: an active-contracts
\* request is sent only after a ledger-end request of the same run (of the same
\* query_acs call) got a response, with activeAtOffset the offset of that
\* response; only check-bridge-contracts.py sends one after a response object
\* that has no offset, and then with activeAtOffset 0.
C10_OffsetFromLedgerEndOrZero ==
    \A i \in 1..Len(requests) :
        requests[i].kind = "active-contracts" =>
            /\ AfterLedgerEnd(i)
            /\ IF HasOffset(requests[i - 1].outcome)
               THEN requests[i].activeAtOffset
                        = Get(Loads(requests[i - 1].outcome), "offset")
               ELSE /\ script = "check-bridge-contracts"
                    /\ IsDict(Loads(requests[i - 1].outcome))
                    /\ requests[i].activeAtOffset = JNum(0)
C10_Witness ==
    /\ script = "query-acs"
    /\ Len(requests) = 4
    /\ requests[2].kind = "active-contracts" /\ requests[2].activeAtOffset = JNum(42)
    /\ requests[4].kind = "active-contracts" /\ requests[4].activeAtOffset = JNum(7)

\* how a request ended when the server could not be reached or answered with
\* a non-2xx status
TransportFailure(o) == o.status \in {"refused", "http_error"}

\* C6: in bootstrap-http.py a transport failure of a submit-and-wait request
\* (connection refused as well as a non-2xx status) never ends the run: the
\* failure is printed for that step and the run goes on to the next step and
\* to "Done".
C6_TransportFailureCaught ==
    \A i \in 1..Len(requests) :
        (requests[i].kind = "submit-and-wait"
         /\ TransportFailure(requests[i].outcome)) =>
            /\ pc # "crashed"
            /\ Len(Printed("failed")) >= 1
            /\ (i = 2 => pc = "done" /\ Len(Printed("Done")) = 1)

\* C9: any two command ids that cmd_id returns in one run of bootstrap-http.py
\* are distinct.
C9_CommandIdsDistinct ==
    \A i, j \in 1..Len(issued) : i # j => issued[i].id # issued[j].id

\* C9, by what the ids are built from: two command ids of one run are equal
\* exactly when they were built in the same clock second from the same six
\* letters, so they are distinct whenever the second or the letters differ;
\* every submit-and-wait request carries the id built for it.
C9_DistinctUnlessSameSecondAndLetters ==
    /\ \A i, j \in 1..Len(issued) :
           issued[i].id = issued[j].id
               <=> (issued[i].t = issued[j].t /\ issued[i].letters = issued[j].letters)
    /\ script = "bootstrap-http" =>
           /\ Len(requests) = Len(issued)
           /\ \A i \in 1..Len(requests) : requests[i].commandId = issued[i].id
\* both steps within one second, told apart by the letters alone
C9_Witness ==
    /\ Len(issued) = 2
    /\ issued[1].t = issued[2].t
    /\ issued[1].letters # issued[2].letters
    /\ requests[1].commandId # requests[2].commandId

\* the files of coverage.json that get a row
Reported == SelectSeq(coverage, LAMBDA f : ~Skip(NameOf(f.path)))
\* the counts that are above zero
Covered(values) == Len(SelectSeq(values, LAMBDA v : v > 0))
\* p is H/S*100 when S > 0 and 0 when S = 0
IsPctOf(p, H, S) ==
    /\ p.den > 0
    /\ IF S > 0 THEN p.num * S = H * 100 * p.den ELSE p.num = 0
InRange(p) == 0 <= p.num /\ p.num <= 100 * p.den

\* C8: in coverage_report.py, for every file that is not skipped and for each
\* of statements, branches and functions, the reported percentage is H/S*100
\* for S entries of which H have a hit count above zero, 0 when S = 0, and it
\* lies between 0 and 100.
C8_PercentagesExact ==
    (script = "coverage_report" /\ pc = "done") =>
        /\ Len(results) = Len(Reported)
        /\ \A i \in 1..Len(results) :
               /\ results[i].name = NameOf(Reported[i].path)
               /\ IsPctOf(results[i].pct_s, Covered(Reported[i].info.s),
                          Len(Reported[i].info.s))
               /\ IsPctOf(results[i].pct_b, Covered(Flatten(Reported[i].info.b)),
                          Len(Flatten(Reported[i].info.b)))
               /\ IsPctOf(results[i].pct_f, Covered(Reported[i].info.f),
                          Len(Reported[i].info.f))
               /\ InRange(results[i].pct_s)
               /\ InRange(results[i].pct_b)
               /\ InRange(results[i].pct_f)
\* a row after a skipped file: statements 1 of 2 hit, two branches under one
\* point with one hit, no function at all
C8_Witness ==
    /\ script = "coverage_report" /\ pc = "done"
    /\ Len(coverage) = 2 /\ Len(results) = 1
    /\ Reported[1].info = Info(<<12, 0>>, << <<0, 1>> >>, <<>>)
    /\ results[1].pct_s = [num |-> 100, den |-> 2]
    /\ results[1].pct_b = [num |-> 100, den |-> 2]
    /\ results[1].pct_f = [num |-> 0, den |-> 1]

\* the submit-and-wait request that created the entity, if one was sent
SentFor(entity) == {i \in 1..Len(requests) : requests[i].entities = <<entity>>}

\* C11: one run of bootstrap-http.py sends at most two submit-and-wait
\* requests, each with exactly one createCommand: the first for BridgeService,
\* the second for LiquidityPool; the LiquidityPool request is sent only after
\* the BridgeService request came back with a 2xx response or an HTTP error,
\* and no entity is ever requested twice.
C11_TwoSubmitsInOrderNoRetry ==
    script = "bootstrap-http" =>
        /\ Len(requests) <= 2
        /\ \A i \in 1..Len(requests) :
               /\ requests[i].kind = "submit-and-wait"
               /\ Len(requests[i].entities) = 1
        /\ Len(requests) >= 1 => requests[1].entities = <<"BridgeService">>
        /\ Len(requests) = 2 =>
               /\ requests[2].entities = <<"LiquidityPool">>
               /\ requests[1].outcome.status \in {"ok", "http_error"}
        /\ Cardinality(SentFor("BridgeService")) <= 1
        /\ Cardinality(SentFor("LiquidityPool")) <= 1
        /\ pc \in {"done", "crashed"} => ~ENABLED NextSubmit
\* BridgeService answered with an HTTP error, LiquidityPool sent once after it
C11_Witness ==
    /\ script = "bootstrap-http" /\ pc = "done"
    /\ Len(requests) = 2
    /\ requests[1].entities = <<"BridgeService">>
    /\ requests[1].outcome.status = "http_error"
    /\ requests[2].entities = <<"LiquidityPool">>
    /\ Len(Printed("failed")) >= 1

\* C12: whenever test-canton-api.py prints "Canton API is WORKING! All
\* protocol contracts are live.", every protocol contract it looks for was
\* found: at least one mUSD token and one DirectMintService, and
\* BridgeService, StakingService, ETHPoolService, BoostPoolService and
\* LendingService are not None.
C12_WorkingImpliesAllFound ==
    (/\ script = "test-canton-api"
     /\ Len(Printed("Canton API is WORKING! All protocol contracts are live.")) > 0) =>
        /\ found.mUSD_tokens # <<>>
        /\ found.directmint # <<>>
        /\ found.bridge # JNull
        /\ found.staking # JNull
        /\ found.ethpool # JNull
        /\ found.boostpool # JNull
        /\ found.lending # JNull

\* a response line that decodes to a JSON object whose contractEntry is an
\* object in which createdEvent, when present, is an object
GoodLine(d) ==
    /\ d # Invalid /\ IsDict(d) /\ Has(d, "contractEntry")
    /\ IsDict(Get(d, "contractEntry"))
    /\ Has(Get(d, "contractEntry"), "createdEvent") =>
           IsDict(Get(Get(d, "contractEntry"), "createdEvent"))
\* the record query_acs keeps for such a line
KeptFor(d) ==
    LET evt == GetOr(Get(d, "contractEntry"), "createdEvent", JDict(<<>>))
    IN  [cid |-> GetOr(evt, "contractId", Tok("?")),
         tid |-> GetOr(evt, "templateId", Tok("?")),
         pkg |-> GetOr(evt, "packageName", Tok("?"))]
\* the records of the good lines of a body, in the order of the lines
KeptOf(lines) ==
    [i \in 1..Len(SelectSeq(lines, GoodLine)) |-> KeptFor(SelectSeq(lines, GoodLine)[i])]

\* C13: in query_acs a response line that does not decode or has another
\* shape never aborts the call: once the active-contracts response has
\* arrived the call returns a list, which holds a record for every other
\* line (a JSON object with a contractEntry) in response order, and
\* "(no contracts found)" is printed exactly for the calls whose list is empty.
C13_BadLineSkipped ==
    script = "query-acs" =>
        /\ \A i \in 1..Len(requests) :
               (requests[i].kind = "active-contracts"
                /\ requests[i].outcome.status = "ok") =>
                   /\ Len(returned) >= requests[i].call
                   /\ returned[requests[i].call]
                          = KeptOf(requests[i].outcome.body.lines)
        /\ Len(Printed("(no contracts found)"))
               = Cardinality({n \in 1..Len(returned) : returned[n] = <<>>})
\* a line that does not decode, a record whose print raises and a good line
\* after them
C13_Witness ==
    /\ script = "query-acs"
    /\ Len(requests) >= 2 /\ Len(returned) >= 1
    /\ requests[2].outcome
           = Ok(NdjsonBody(<<Plain("flat", JDict(<< <<"contractId", JNum(7)>> >>)),
                             Invalid>>))
    /\ returned[1] = <<Contract(JNum(7), Tok("?"), Tok("?"))>>
    /\ Len(Printed("(no contracts found)")) = 0

====
